---- MODULE Spec2Model ----
(***************************************************************************)
(* A model of the node-llama-cpp provider (src/src/provider.ts):           *)
(*   - the Session Manager: NodeLlamaCppProvider.initialize / getSession,  *)
(*     with the async initialization split at its await points;            *)
(*   - the Stream Adapter: NodeLlamaCppLanguageModel.doStream, with the    *)
(*     runtime (session.promptWithMeta) as the environment that delivers   *)
(*     text chunks, response chunks and tool handler invocations;          *)
(*   - the History Translator: convertToLlamaChatHistory, one step of its  *)
(*     loops at a time;                                                    *)
(*   - doGenerate, the non-streaming request;                              *)
(*   - the OpenAI-compatible server and handlers (api/server.ts,           *)
(*     openai-handler.ts), with session.prompt as the environment.         *)
(***************************************************************************)
EXTENDS Integers, Sequences, FiniteSets, TLC

\* ---------------------------------------------------------------- bounds
NumCallers == 2
MaxCalls == 2
MaxCallbacks == 3
MaxMsgs == 3
MaxTranslations == 3

VARIABLES
    \* ---- NodeLlamaCppProvider (provider.ts 77-197)
    cfg,            \* the configuration given to the constructor
    session,        \* this.session
    llamaModel,     \* this.llamaModel
    llamaContext,   \* this.llamaContext
    initPromise,    \* this.initPromise: 0 (null) or the index of an attempt
    attemptPc,      \* one entry per started initialization closure: its await point
    callerPc,       \* each getSession() caller: idle / awaiting / resolved / rejected
    callerWait,     \* the promise a caller awaits: 0 (already settled) or an attempt
    callerResult,   \* the session a caller's getSession() resolved to
    calls,          \* getSession() calls made by each caller
    loadCalls,      \* llama.loadModel calls made
    ctxCalls,       \* llamaModel.createContext calls made
    sessCreated,    \* LlamaChatSession objects constructed
    returned,       \* every session a getSession() call has resolved to
    \* ---- NodeLlamaCppLanguageModel.doStream (provider.ts 511-692)
    req,            \* the request (options): prompt and tools
    streamPc,       \* idle / generating / done
    events,         \* what controller.enqueue has put on the stream, in order
    streamState,    \* the ReadableStream: open / closed / errored
    textStartSent,
    textEndSent,
    toolCallAborted,
    aborted,        \* abortController.signal.aborted
    textId,
    reasoningId,
    promptText,     \* the prompt string given to promptWithMeta
    chatHistory,    \* the session's chat history, as far as setChatHistory sets it
    historySet,     \* session.setChatHistory was called by this request
    rtSegOpen,      \* runtime: a thought segment is open
    rtLog,          \* runtime: the callbacks it has delivered in this generation
    rtOutcome,      \* runtime: promptWithMeta is running / returned / threw
    thrown,         \* runtime: what promptWithMeta rejected with
    nextId,         \* randomUUID(): ids handed out so far
    functions,      \* runtime: the function table it was last given (its keys)
    handlerLog,     \* the steps the tool handlers of this request took, in order
    \* ---- NodeLlamaCppLanguageModel.doGenerate (provider.ts 395-509)
    gReq,           \* the request (options): prompt and tools
    gPc,            \* idle / generating / done
    gPromptText,    \* the prompt string given to promptWithMeta
    toolCallsTriggered,  \* the invocations the tool handlers recorded, in order
    gAborted,       \* abortController.signal.aborted
    gOutcome,       \* the promise doGenerate returned: none / fulfilled / rejected
    gResult,        \* what it fulfilled with
    gThrown,        \* what it rejected with
    gRtResult,      \* runtime: what promptWithMeta resolved to
    gFired,         \* runtime: the handler invocations it made, in order
    \* ---- convertToLlamaChatHistory (provider.ts 243-345), one loop step at a time
    hPrompt,        \* the conversation being translated
    hMsg,           \* the message the outer loop is at
    hPart,          \* the parts of a tool message the inner loop has passed
    hHistory,       \* the local array history
    hPc,            \* idle / running / done
    hBefore,        \* history as it was before the last loop step
    hLastPart,      \* the tool-result part the last loop step handled, if any
    hWarned,        \* the roles console.warn reported as unsupported, in order
    hOutputs,       \* the translations that returned: conversation and history
    \* ---- the OpenAI-compatible server and handlers (api/server.ts, openai-handler.ts)
    srvPc,          \* start(): starting / listening / exited
    srvSession,     \* server.ts: the global session (FALSE is null)
    oaReq,          \* the request body
    oaMode,         \* which handler serves it: none / json / callback / generator
    oaPc,           \* idle / prompting / yieldedFinal / yieldedDone / done
    isFirst,        \* the handler's local isFirst
    fragments,      \* runtime: the text fragments session.prompt has produced
    onChunkLog,     \* what was passed to onChunk, in order
    yielded,        \* what the async generator has yielded, in order
    resStatus,      \* res: the status code sent (0: nothing sent yet)
    headersSent,    \* res.headersSent
    resBody,        \* res: the JSON body sent, if any
    resWritten,     \* res: what res.write has put on the wire, in order
    resEnded,       \* res: the response was ended
    oaOutcome,      \* how the route handler ended: none / returned / threw
    healthSent,     \* the bodies GET /health has responded with
    \* ---- the callers of doStream / doGenerate
    callerSignal,   \* options.abortSignal.aborted, the signal the caller supplied
    rPc,            \* per concurrent request: idle / awaiting / generating / done
    rReq,           \* per concurrent request: the method called and the prompt
    rOverlap        \* per concurrent request: it generated while another one did

provVars == <<cfg, session, llamaModel, llamaContext, initPromise, attemptPc,
              callerPc, callerWait, callerResult, calls, loadCalls, ctxCalls,
              sessCreated, returned>>
streamOnly == <<req, streamPc, events, streamState, textStartSent, textEndSent,
                toolCallAborted, aborted, textId, reasoningId, promptText,
                chatHistory, historySet, rtSegOpen, rtLog, rtOutcome, thrown>>
streamVars == <<streamOnly, nextId, functions, handlerLog>>
genVars == <<gReq, gPc, gPromptText, toolCallsTriggered, gAborted, gOutcome, gResult,
             gThrown, gRtResult, gFired>>
histVars == <<hPrompt, hMsg, hPart, hHistory, hPc, hBefore, hLastPart, hWarned,
              hOutputs>>
oaVars == <<srvPc, srvSession, oaReq, oaMode, oaPc, isFirst, fragments, onChunkLog,
            yielded, resStatus, headersSent, resBody, resWritten, resEnded, oaOutcome>>
healthVars == <<healthSent>>
concVars == <<callerSignal, rPc, rReq, rOverlap>>
vars == <<provVars, streamVars, genVars, histVars, oaVars, healthVars, concVars>>
notProv == <<streamVars, genVars, histVars, oaVars, healthVars, concVars>>
notStream == <<provVars, genVars, histVars, oaVars, healthVars, concVars>>
notGen == <<provVars, streamOnly, histVars, oaVars, healthVars, concVars>>
notHist == <<provVars, streamVars, genVars, oaVars, healthVars, concVars>>
notOa == <<provVars, streamVars, genVars, histVars, healthVars, concVars>>
notHealth == <<provVars, streamVars, genVars, histVars, oaVars, concVars>>

\* ---------------------------------------------------------------- objects
Null == <<"null", 0>>
Injected(kind) == <<kind, 0>>
Created(kind, n) == <<kind, n>>

Callers == 1..NumCallers

\* ================================================================
\* Session Manager
\* ================================================================

Constructor_IgnoresSession(c) ==
    /\ cfg = c
    /\ session = Null
    /\ llamaModel = IF c.llamaModel THEN Injected("model") ELSE Null
    /\ llamaContext = IF c.llamaContext THEN Injected("context") ELSE Null
    /\ initPromise = 0
    /\ attemptPc = <<>>
    /\ callerPc = [c2 \in Callers |-> "idle"]
    /\ callerWait = [c2 \in Callers |-> 0]
    /\ callerResult = [c2 \in Callers |-> Null]
    /\ calls = [c2 \in Callers |-> 0]
    /\ loadCalls = 0
    /\ ctxCalls = 0
    /\ sessCreated = 0
    /\ returned = {}

\* The constructor (provider.ts 86-112): a provided session, model and context
\* are taken over, everything else starts null.
Constructor(c) ==
    /\ cfg = c
    /\ session = IF c.session THEN Injected("session") ELSE Null
    /\ llamaModel = IF c.llamaModel THEN Injected("model") ELSE Null
    /\ llamaContext = IF c.llamaContext THEN Injected("context") ELSE Null
    /\ initPromise = 0
    /\ attemptPc = <<>>
    /\ callerPc = [c2 \in Callers |-> "idle"]
    /\ callerWait = [c2 \in Callers |-> 0]
    /\ callerResult = [c2 \in Callers |-> Null]
    /\ calls = [c2 \in Callers |-> 0]
    /\ loadCalls = 0
    /\ ctxCalls = 0
    /\ sessCreated = 0
    /\ returned = {}

Configs == [session : BOOLEAN, llamaModel : BOOLEAN, llamaContext : BOOLEAN]

\* initialize(), line 118: if (this.session) return
AlreadyInitialized_NoCheck == FALSE
AlreadyInitialized == session # Null

\* initialize(), line 123: if (this.initPromise) return this.initPromise
InitInFlight_NoCheck == FALSE
InitInFlight == initPromise # 0

\* getSession() up to its await (190-191), with the synchronous part of
\* initialize() (118-128): the closure runs up to `await getLlama()` and the
\* promise is stored before anything else can run.
GetSession(c) ==
    /\ callerPc[c] # "awaiting"
    /\ calls[c] < MaxCalls
    /\ calls' = [calls EXCEPT ![c] = @ + 1]
    /\ callerPc' = [callerPc EXCEPT ![c] = "awaiting"]
    /\ IF AlreadyInitialized
         THEN /\ callerWait' = [callerWait EXCEPT ![c] = 0]
              /\ UNCHANGED <<initPromise, attemptPc>>
         ELSE IF InitInFlight
           THEN /\ callerWait' = [callerWait EXCEPT ![c] = initPromise]
                /\ UNCHANGED <<initPromise, attemptPc>>
           ELSE /\ attemptPc' = Append(attemptPc, "getLlama")
                /\ initPromise' = Len(attemptPc) + 1
                /\ callerWait' = [callerWait EXCEPT ![c] = Len(attemptPc) + 1]
    /\ UNCHANGED <<cfg, session, llamaModel, llamaContext, callerResult,
                   loadCalls, ctxCalls, sessCreated, returned>>

\* Any awaited step of the closure may reject: the closure's promise rejects and
\* nothing else is touched (there is no catch in 127-171).
InitFail(a) ==
    /\ a \in 1..Len(attemptPc)
    /\ attemptPc[a] \in {"getLlama", "resolveModelFile", "loadModel",
                         "createContext", "import"}
    /\ attemptPc' = [attemptPc EXCEPT ![a] = "failed"]
    /\ UNCHANGED <<cfg, session, llamaModel, llamaContext, initPromise, callerPc,
                   callerWait, callerResult, calls, loadCalls, ctxCalls,
                   sessCreated, returned>>

\* 128-138: getLlama() resolved; resolveModelFile is called and awaited.
InitGetLlama(a) ==
    /\ a \in 1..Len(attemptPc)
    /\ attemptPc[a] = "getLlama"
    /\ attemptPc' = [attemptPc EXCEPT ![a] = "resolveModelFile"]
    /\ UNCHANGED <<cfg, session, llamaModel, llamaContext, initPromise, callerPc,
                   callerWait, callerResult, calls, loadCalls, ctxCalls,
                   sessCreated, returned>>

\* 159-170 as seen after the model is known: createContext is called only when
\* no context is there, otherwise the closure goes on to the import.
AfterModel(a, ctx) ==
    IF ctx = Null
      THEN /\ ctxCalls' = ctxCalls + 1
           /\ attemptPc' = [attemptPc EXCEPT ![a] = "createContext"]
      ELSE /\ ctxCalls' = ctxCalls
           /\ attemptPc' = [attemptPc EXCEPT ![a] = "import"]

\* 135-145: resolveModelFile resolved; loadModel is called only when no model
\* is there.
InitResolveModelFile(a) ==
    /\ a \in 1..Len(attemptPc)
    /\ attemptPc[a] = "resolveModelFile"
    /\ IF llamaModel = Null
         THEN /\ loadCalls' = loadCalls + 1
              /\ attemptPc' = [attemptPc EXCEPT ![a] = "loadModel"]
              /\ UNCHANGED ctxCalls
         ELSE /\ AfterModel(a, llamaContext)
              /\ UNCHANGED loadCalls
    /\ UNCHANGED <<cfg, session, llamaModel, llamaContext, initPromise, callerPc,
                   callerWait, callerResult, calls, sessCreated, returned>>

\* 145-163: loadModel resolved and is stored.
InitLoadModel(a) ==
    /\ a \in 1..Len(attemptPc)
    /\ attemptPc[a] = "loadModel"
    /\ llamaModel' = Created("model", loadCalls)
    /\ AfterModel(a, llamaContext)
    /\ UNCHANGED <<cfg, session, llamaContext, initPromise, callerPc, callerWait,
                   callerResult, calls, loadCalls, sessCreated, returned>>

\* 160-167: createContext resolved and is stored; the import is awaited.
InitCreateContext(a) ==
    /\ a \in 1..Len(attemptPc)
    /\ attemptPc[a] = "createContext"
    /\ llamaContext' = Created("context", ctxCalls)
    /\ attemptPc' = [attemptPc EXCEPT ![a] = "import"]
    /\ UNCHANGED <<cfg, session, llamaModel, initPromise, callerPc, callerWait,
                   callerResult, calls, loadCalls, ctxCalls, sessCreated, returned>>

\* 166-171: the session is constructed and stored; the closure's promise resolves.
InitCreateSession(a) ==
    /\ a \in 1..Len(attemptPc)
    /\ attemptPc[a] = "import"
    /\ sessCreated' = sessCreated + 1
    /\ session' = Created("session", sessCreated + 1)
    /\ attemptPc' = [attemptPc EXCEPT ![a] = "done"]
    /\ UNCHANGED <<cfg, llamaModel, llamaContext, initPromise, callerPc, callerWait,
                   callerResult, calls, loadCalls, ctxCalls, returned>>

\* getSession() after its await (191-195): a rejected promise rejects the call,
\* a null session throws, otherwise the session is returned.
GetSessionResume(c) ==
    /\ callerPc[c] = "awaiting"
    /\ \/ callerWait[c] = 0
       \/ /\ callerWait[c] # 0
          /\ attemptPc[callerWait[c]] \in {"done", "failed"}
    /\ IF callerWait[c] # 0 /\ attemptPc[callerWait[c]] = "failed"
         THEN /\ callerPc' = [callerPc EXCEPT ![c] = "rejected"]
              /\ UNCHANGED <<callerResult, returned>>
         ELSE IF session = Null
           THEN /\ callerPc' = [callerPc EXCEPT ![c] = "rejected"]
                /\ UNCHANGED <<callerResult, returned>>
           ELSE /\ callerPc' = [callerPc EXCEPT ![c] = "resolved"]
                /\ callerResult' = [callerResult EXCEPT ![c] = session]
                /\ returned' = returned \cup {session}
    /\ UNCHANGED <<cfg, session, llamaModel, llamaContext, initPromise, attemptPc,
                   callerWait, calls, loadCalls, ctxCalls, sessCreated>>

\* ================================================================
\* Requests: prompts (LanguageModelV2Prompt) and tool declarations
\* ================================================================
TextPart(t) == [type |-> "text", text |-> t]
ReasoningPart(t) == [type |-> "reasoning", text |-> t]
FilePart == [type |-> "file"]
ToolCallPart(name, input) == [type |-> "tool-call", toolName |-> name, input |-> input]
ToolResultPart(name, output) == [type |-> "tool-result", toolName |-> name, output |-> output]
JsonOutput(v) == [type |-> "json", value |-> v]
TextOutput(v) == [type |-> "text", value |-> v]

SystemMsg(t) == [role |-> "system", content |-> t]
UserMsg(parts) == [role |-> "user", content |-> parts]
AssistantMsg(parts) == [role |-> "assistant", content |-> parts]
ToolMsg(parts) == [role |-> "tool", content |-> parts]

FunctionTool(name) == [type |-> "function", name |-> name, hasInputSchema |-> TRUE]
ProviderDefinedTool(name) == [type |-> "provider-defined", name |-> name, hasInputSchema |-> FALSE]

\* The conversations a request is drawn from.
Prompts ==
    { <<UserMsg(<<TextPart("hi")>>)>>,
      <<UserMsg(<<TextPart("a"), FilePart, TextPart("b")>>)>>,
      <<SystemMsg("sys"), UserMsg(<<TextPart("hi")>>)>>,
      <<UserMsg(<<TextPart("hi")>>),
        AssistantMsg(<<TextPart("ok"), ToolCallPart("X", "p1")>>),
        ToolMsg(<<ToolResultPart("X", JsonOutput("v"))>>)>>,
      <<ToolMsg(<<ToolResultPart("X", JsonOutput("v"))>>)>> }

\* The tool arrays a request is drawn from.
ToolLists ==
    { <<>>,
      <<FunctionTool("X")>>,
      <<ProviderDefinedTool("Y"), FunctionTool("X")>> }

\* The parameter objects the runtime passes to a tool handler, and what
\* JSON.stringify (584) makes of each.
Params == {"empty", "city"}
JSONstringify(p) == IF p = "empty" THEN "{}" ELSE "{\"city\":\"Paris\"}"

\* content.map(part => part.type === "text" ? part.text : "").join("") (229-231, 261-263)
RECURSIVE JoinText(_)
JoinText(parts) ==
    IF parts = <<>> THEN ""
    ELSE (IF Head(parts).type = "text" THEN Head(parts).text ELSE "") \o JoinText(Tail(parts))

\* extractPromptText (216-237): the text of the last message.
ExtractPromptText(prompt) ==
    IF prompt = <<>> THEN ""
    ELSE LET lastMessage == prompt[Len(prompt)]
         IN IF lastMessage.role = "system" THEN lastMessage.content
            ELSE JoinText(lastMessage.content)

\* doStream 517-522
HasToolResults(prompt) ==
    \E i \in 1..Len(prompt) :
        \/ prompt[i].role = "tool"
        \/ /\ prompt[i].role # "system"
           /\ \E j \in 1..Len(prompt[i].content) :
                  prompt[i].content[j].type = "tool-result"

\* ================================================================
\* History Translator (convertToLlamaChatHistory, 243-345)
\* ================================================================
\* The result field of a function-call segment. A json output's value is
\* written as its JSON text; a stored output object keeps the object.
Undefined == [js |-> "undefined"]
JsValue(json) == [js |-> "value", v |-> json]
JsObject(output) == [js |-> "object", o |-> output]

\* JavaScript truthiness of a stored result (324: !r.result): 0, false, null
\* and the empty string are falsy, like a result that was never set.
FalsyValues == {"0", "false", "null", "\"\""}
Truthy(r) == r.js = "object" \/ (r.js = "value" /\ r.v \notin FalsyValues)

\* 279-300: the segments of one assistant message.
RECURSIVE AssistantSegments(_)
AssistantSegments(parts) ==
    IF parts = <<>> THEN <<>>
    ELSE LET part == Head(parts)
             seg == IF part.type = "text"
                      THEN <<[type |-> "text", text |-> part.text]>>
                    ELSE IF part.type = "reasoning"
                      THEN <<[type |-> "segment", segmentType |-> "thought",
                              text |-> part.text]>>
                    ELSE IF part.type = "tool-call"
                      THEN <<[type |-> "functionCall", name |-> part.toolName,
                              params |-> part.input, result |-> Undefined]>>
                    ELSE <<>>
         IN seg \o AssistantSegments(Tail(parts))

LastModelResponse_First(history) ==
    LET idx == {i \in 1..Len(history) : history[i].type = "model"}
    IN IF idx = {} THEN 0 ELSE CHOOSE i \in idx : \A j \in idx : i <= j

\* 313-316: history.slice().reverse().find(h => h.type === "model"): the index
\* of the last model response, 0 when there is none.
LastModelResponse(history) ==
    LET idx == {i \in 1..Len(history) : history[i].type = "model"}
    IN IF idx = {} THEN 0 ELSE CHOOSE i \in idx : \A j \in idx : j <= i

\* 319-325: the first function call of that response with the tool's name and
\* a falsy result, 0 when there is none.
FindFunctionCall(response, toolName) ==
    LET idx == {i \in 1..Len(response) :
                  /\ response[i].type = "functionCall"
                  /\ response[i].name = toolName
                  /\ ~Truthy(response[i].result)}
    IN IF idx = {} THEN 0 ELSE CHOOSE i \in idx : \A j \in idx : i <= j

\* 328-331: the stored result. A non-json output is stored as the output object.
OutputResult_PassThrough(output) == JsObject(output)
OutputResult(output) ==
    IF output.type = "json" THEN JsValue(output.value) ELSE JsObject(output)

\* 310-334: one tool-result part.
ApplyToolResult(history, part) ==
    IF part.type # "tool-result" THEN history
    ELSE LET m == LastModelResponse(history)
         IN IF m = 0 THEN history
            ELSE LET f == FindFunctionCall(history[m].response, part.toolName)
                 IN IF f = 0 THEN history
                    ELSE [history EXCEPT ![m].response[f].result = OutputResult(part.output)]

RECURSIVE ApplyToolResults(_, _)
ApplyToolResults(history, parts) ==
    IF parts = <<>> THEN history
    ELSE ApplyToolResults(ApplyToolResult(history, Head(parts)), Tail(parts))

\* 247-337: the roles the switch has a case for.
SupportedRole(message) == message.role \in {"system", "user", "assistant", "tool"}

ConvertMessage_DefaultAsUser(history, message) ==
    IF message.role = "system"
      THEN Append(history, [type |-> "system", text |-> message.content])
    ELSE IF message.role = "assistant"
      THEN Append(history, [type |-> "model",
                            response |-> AssistantSegments(message.content)])
    ELSE IF message.role = "tool"
      THEN ApplyToolResults(history, message.content)
    ELSE Append(history, [type |-> "user", text |-> JoinText(message.content)])

ConvertMessage_UserTextOnly(history, message) ==
    IF message.role = "system"
      THEN Append(history, [type |-> "system", text |-> message.content])
    ELSE IF message.role = "user"
      THEN Append(history, [type |-> "user", text |-> Head(message.content).text])
    ELSE IF message.role = "assistant"
      THEN Append(history, [type |-> "model",
                            response |-> AssistantSegments(message.content)])
    ELSE IF message.role = "tool"
      THEN ApplyToolResults(history, message.content)
    ELSE history

\* 247-341: one message.
ConvertMessage(history, message) ==
    IF message.role = "system"
      THEN Append(history, [type |-> "system", text |-> message.content])
    ELSE IF message.role = "user"
      THEN Append(history, [type |-> "user", text |-> JoinText(message.content)])
    ELSE IF message.role = "assistant"
      THEN Append(history, [type |-> "model",
                            response |-> AssistantSegments(message.content)])
    ELSE IF message.role = "tool"
      THEN ApplyToolResults(history, message.content)
    ELSE history

RECURSIVE ConvertFrom(_, _)
ConvertFrom(prompt, history) ==
    IF prompt = <<>> THEN history
    ELSE ConvertFrom(Tail(prompt), ConvertMessage(history, Head(prompt)))

ConvertToLlamaChatHistory(prompt) == ConvertFrom(prompt, <<>>)

\* ================================================================
\* Tool Bridge (convertTools, 352-393)
\* ================================================================
ConvertTools_NoSkip(tools) == {tools[i].name : i \in 1..Len(tools)}

\* The keys of the function table: function tools that have an input schema.
ConvertTools(tools) ==
    {tools[i].name : i \in {j \in 1..Len(tools) :
                               tools[j].type = "function" /\ tools[j].hasInputSchema}}

\* ================================================================
\* Stream Adapter (doStream, 511-692)
\* ================================================================
TextStart(id) == [type |-> "text-start", id |-> id]
TextDelta(id, d) == [type |-> "text-delta", id |-> id, delta |-> d]
TextEnd(id) == [type |-> "text-end", id |-> id]
ReasoningStart(id) == [type |-> "reasoning-start", id |-> id]
ReasoningDelta(id, d) == [type |-> "reasoning-delta", id |-> id, delta |-> d]
ReasoningEnd(id) == [type |-> "reasoning-end", id |-> id]
ToolCall(id, name, input) ==
    [type |-> "tool-call", toolCallId |-> id, toolName |-> name, input |-> input]
Finish(reason) == [type |-> "finish", finishReason |-> reason]

\* doStream up to the construction of the stream (514-553): the continuation
\* test, the installation of the history, the prompt text, the ids, and the
\* start of the generation call. The provider holds a session, so getSession()
\* (514) resolves to it.
\* 526: if (options.prompt.length > 1 || hasToolResults)
IsContinuation_ToolResultsOnly(prompt) == HasToolResults(prompt)
IsContinuation(prompt) == Len(prompt) > 1 \/ HasToolResults(prompt)

\* 534-536: the prompt string given to the generation call
StreamPromptText(prompt) ==
    IF HasToolResults(prompt) THEN "" ELSE ExtractPromptText(prompt)

DoStream(prompt, tools) ==
    /\ streamPc = "idle"
    /\ session # Null
    /\ req' = [prompt |-> prompt, tools |-> tools]
    /\ IF IsContinuation(prompt)
         THEN /\ chatHistory' = ConvertToLlamaChatHistory(prompt)
              /\ historySet' = TRUE
         ELSE UNCHANGED <<chatHistory, historySet>>
    /\ promptText' = StreamPromptText(prompt)
    /\ thrown' = "none"
    /\ toolCallAborted' = FALSE
    /\ aborted' = FALSE
    /\ textId' = nextId + 1
    /\ reasoningId' = nextId + 2
    /\ nextId' = nextId + 2
    /\ functions' = ConvertTools(tools)
    /\ handlerLog' = <<>>
    /\ textStartSent' = FALSE
    /\ textEndSent' = FALSE
    /\ events' = <<>>
    /\ streamState' = "open"
    /\ rtSegOpen' = FALSE
    /\ rtLog' = <<>>
    /\ rtOutcome' = "running"
    /\ streamPc' = "generating"

\* The runtime delivers callbacks while promptWithMeta runs. Cancellation is
\* cooperative (558-559): abort() only raises the signal, and the runtime goes on
\* delivering what it has until it returns or throws.
RuntimeDelivers ==
    /\ streamPc = "generating"
    /\ Len(rtLog) < MaxCallbacks

\* 603: if (!chunk) return
IsEmptyChunk_Never(chunk) == FALSE
IsEmptyChunk(chunk) == chunk = ""

\* onTextChunk (602-617)
OnTextChunk(chunk) ==
    /\ RuntimeDelivers
    /\ rtLog' = Append(rtLog, [cb |-> "text", chunk |-> chunk])
    /\ IF IsEmptyChunk(chunk)
         THEN UNCHANGED <<events, textStartSent>>
         ELSE /\ events' = (IF ~textStartSent THEN Append(events, TextStart(textId))
                            ELSE events) \o <<TextDelta(textId, chunk)>>
              /\ textStartSent' = TRUE
    /\ UNCHANGED <<req, streamPc, streamState, textEndSent, toolCallAborted, aborted,
                   textId, reasoningId, promptText, chatHistory, historySet,
                   rtSegOpen, rtOutcome, thrown, nextId, functions, handlerLog>>

\* The response chunks the runtime can deliver: a thought segment's first chunk
\* carries the start marker, its last chunk the end marker, and any of them may
\* carry text; chunks of other kinds are delivered too.
ThoughtChunks ==
    {c \in [type : {"segment"}, segmentType : {"thought"},
            segmentStartTime : BOOLEAN, segmentEndTime : BOOLEAN, text : {"", "r"}] :
        /\ c.segmentStartTime = ~rtSegOpen
        /\ (c.segmentStartTime \/ c.segmentEndTime \/ c.text # "")}
OtherChunks ==
    {[type |-> "segment", segmentType |-> "comment", segmentStartTime |-> TRUE,
      segmentEndTime |-> TRUE, text |-> "c"]}

\* 624-642: the events of one thought chunk, in the order the code enqueues them.
ThoughtChunkEvents(chunk) ==
    (IF chunk.segmentStartTime THEN <<ReasoningStart(reasoningId)>> ELSE <<>>)
    \o (IF chunk.segmentEndTime THEN <<ReasoningEnd(reasoningId)>> ELSE <<>>)
    \o (IF chunk.text # "" THEN <<ReasoningDelta(reasoningId, chunk.text)>> ELSE <<>>)

\* onResponseChunk (619-644)
OnResponseChunk(chunk) ==
    /\ RuntimeDelivers
    /\ rtLog' = Append(rtLog, [cb |-> "response", chunk |-> chunk])
    /\ IF chunk.type = "segment" /\ chunk.segmentType = "thought"
         THEN /\ events' = events \o ThoughtChunkEvents(chunk)
              /\ rtSegOpen' = ~chunk.segmentEndTime
         ELSE UNCHANGED <<events, rtSegOpen>>
    /\ UNCHANGED <<req, streamPc, streamState, textStartSent, textEndSent,
                   toolCallAborted, aborted, textId, reasoningId, promptText,
                   chatHistory, historySet, rtOutcome, thrown, nextId, functions, handlerLog>>

\* 570: if (textStartSent && !textEndSent)
ToolCallClosesText_Never == FALSE
ToolCallClosesText == textStartSent /\ ~textEndSent

\* 372-388: what the handler does, in order.
HandlerSteps_AbortFirst == <<"abort", "onToolCall", "return">>
HandlerSteps == <<"onToolCall", "abort", "return">>

\* The steps of one handler invocation, each with the number of tool calls
\* that are recorded when the step is over, and the reason abort() is given.
HandlerRun(steps, toolName, recordedBefore) ==
    [i \in 1..Len(steps) |->
        [step |-> steps[i],
         toolName |-> toolName,
         reason |-> IF steps[i] = "abort" THEN "tool-call-detected" ELSE "none",
         recorded |-> recordedBefore +
             (IF \E j \in 1..i : steps[j] \in {"onToolCall", "push"} THEN 1 ELSE 0)]]

\* the tool-call events enqueued so far (578-585)
ToolCallsEmitted ==
    Cardinality({i \in 1..Len(events) : events[i].type = "tool-call"})

\* The handler convertTools registers for a tool (372-388): onToolCall
\* (563-600) and then abortController.abort("tool-call-detected").
ToolHandler(toolName, params) ==
    /\ RuntimeDelivers
    /\ toolName \in functions
    /\ rtLog' = Append(rtLog, [cb |-> "tool", toolName |-> toolName, params |-> params])
    /\ events' = (IF ToolCallClosesText THEN Append(events, TextEnd(textId)) ELSE events)
                 \o <<ToolCall(nextId + 1, toolName, JSONstringify(params)),
                      Finish("tool-calls")>>
    /\ textEndSent' = (textEndSent \/ ToolCallClosesText)
    /\ nextId' = nextId + 1
    /\ toolCallAborted' = TRUE
    /\ aborted' = TRUE
    /\ handlerLog' = handlerLog \o HandlerRun(HandlerSteps, toolName, ToolCallsEmitted)
    /\ UNCHANGED functions
    /\ UNCHANGED <<req, streamPc, streamState, textStartSent, textId, reasoningId,
                   promptText, chatHistory, historySet, rtSegOpen, rtOutcome,
                   thrown>>

\* 654: if (textStartSent && !textEndSent)
CompletionClosesText_Never == FALSE
CompletionClosesText == textStartSent /\ ~textEndSent

\* 649, 672, 680: controller.close() moves the stream from open to closed.
ControllerClose_Forgotten == "open"
ControllerClose == "closed"

\* promptWithMeta resolved (647-672).
GenerationReturns ==
    /\ streamPc = "generating"
    /\ rtOutcome' = "returned"
    /\ streamPc' = "done"
    /\ streamState' = ControllerClose
    /\ IF toolCallAborted
         THEN UNCHANGED <<events, textEndSent>>
         ELSE /\ events' = (IF CompletionClosesText THEN Append(events, TextEnd(textId))
                            ELSE events) \o <<Finish("stop")>>
              /\ textEndSent' = (textEndSent \/ CompletionClosesText)
    /\ UNCHANGED <<req, textStartSent, toolCallAborted, aborted, textId, reasoningId,
                   promptText, chatHistory, historySet, rtSegOpen, rtLog, thrown,
                   nextId, functions, handlerLog>>

\* What promptWithMeta can reject with: the reason given to abort() (380), once
\* the signal is raised, or an error of its own at any time.
ThrownValues == {"tool-call-detected", "error"}

\* 675: if (toolCallAborted)
CatchIsToolCallAbort_Never == FALSE
CatchIsToolCallAbort == toolCallAborted

\* promptWithMeta rejected (673-685).
GenerationThrows(err) ==
    /\ streamPc = "generating"
    /\ err = "tool-call-detected" => aborted
    /\ rtOutcome' = "threw"
    /\ thrown' = err
    /\ streamPc' = "done"
    /\ streamState' = IF CatchIsToolCallAbort THEN ControllerClose ELSE "errored"
    /\ UNCHANGED <<req, events, textStartSent, textEndSent, toolCallAborted, aborted,
                   textId, reasoningId, promptText, chatHistory, historySet,
                   rtSegOpen, rtLog, nextId, functions, handlerLog>>

\* ================================================================
\* Specification of the Session Manager
\* ================================================================
\* No caller has raised its abort signal and no concurrent request was made.
NoRequest == [kind |-> "none", prompt |-> <<>>]
CallersIdle ==
    /\ callerSignal = FALSE
    /\ rPc = [c \in Callers |-> "idle"]
    /\ rReq = [c \in Callers |-> NoRequest]
    /\ rOverlap = [c \in Callers |-> FALSE]

StreamIdle ==
    /\ CallersIdle
    /\ req = [prompt |-> <<>>, tools |-> <<>>]
    /\ streamPc = "idle"
    /\ events = <<>>
    /\ streamState = "open"
    /\ textStartSent = FALSE
    /\ textEndSent = FALSE
    /\ toolCallAborted = FALSE
    /\ aborted = FALSE
    /\ textId = 0
    /\ reasoningId = 0
    /\ promptText = ""
    /\ chatHistory = <<>>
    /\ historySet = FALSE
    /\ rtSegOpen = FALSE
    /\ rtLog = <<>>
    /\ rtOutcome = "none"
    /\ thrown = "none"
    /\ nextId = 0
    /\ handlerLog = <<>>

\* No request was made before: the runtime was given no function table.
NoEarlierRequest == functions = {}

GenIdle ==
    /\ gReq = [prompt |-> <<>>, tools |-> <<>>]
    /\ gPc = "idle"
    /\ gPromptText = ""
    /\ toolCallsTriggered = <<>>
    /\ gAborted = FALSE
    /\ gOutcome = "none"
    /\ gResult = [finishReason |-> "none"]
    /\ gThrown = "none"
    /\ gRtResult = [response |-> <<>>, responseText |-> ""]
    /\ gFired = <<>>

NoBody == [kind |-> "none"]

\* server.ts 25: the module is loaded, start() has not run; no request yet.
OaIdle ==
    /\ srvPc = "starting"
    /\ srvSession = FALSE
    /\ oaReq = [hasMessages |-> FALSE, messages |-> <<>>, stream |-> FALSE]
    /\ oaMode = "none"
    /\ oaPc = "idle"
    /\ isFirst = TRUE
    /\ fragments = <<>>
    /\ onChunkLog = <<>>
    /\ yielded = <<>>
    /\ resStatus = 0
    /\ headersSent = FALSE
    /\ resBody = NoBody
    /\ resWritten = <<>>
    /\ resEnded = FALSE
    /\ oaOutcome = "none"
    /\ healthSent = {}

NoPart == [type |-> "none"]

HistIdle ==
    /\ hPrompt = <<>>
    /\ hMsg = 0
    /\ hPart = 0
    /\ hHistory = <<>>
    /\ hPc = "idle"
    /\ hBefore = <<>>
    /\ hLastPart = NoPart
    /\ hWarned = <<>>
    /\ hOutputs = <<>>

Init ==
    /\ \E c \in Configs : Constructor(c)
    /\ StreamIdle
    /\ NoEarlierRequest
    /\ GenIdle
    /\ HistIdle
    /\ OaIdle

Next ==
    \/ \E c \in Callers : GetSession(c) /\ UNCHANGED notProv
    \/ \E c \in Callers : GetSessionResume(c) /\ UNCHANGED notProv
    \/ \E a \in 1..Len(attemptPc) : InitGetLlama(a) /\ UNCHANGED notProv
    \/ \E a \in 1..Len(attemptPc) : InitResolveModelFile(a) /\ UNCHANGED notProv
    \/ \E a \in 1..Len(attemptPc) : InitLoadModel(a) /\ UNCHANGED notProv
    \/ \E a \in 1..Len(attemptPc) : InitCreateContext(a) /\ UNCHANGED notProv
    \/ \E a \in 1..Len(attemptPc) : InitCreateSession(a) /\ UNCHANGED notProv
    \/ \E a \in 1..Len(attemptPc) : InitFail(a) /\ UNCHANGED notProv

Spec == Init /\ [][Next]_vars

\* ---------------------------------------------------------------- claims

\* C1: concurrent getSession() callers share the one in-flight initialization:
\* the model is loaded at most once, the context and the session are created at
\* most once, and every caller resolves to the same session.
C1_SingleFlight ==
    /\ loadCalls <= 1
    /\ ctxCalls <= 1
    /\ sessCreated <= 1
    /\ Len(attemptPc) <= 1
    /\ Cardinality(returned) <= 1
    /\ \A c, d \in Callers :
         (callerPc[c] = "resolved" /\ callerPc[d] = "resolved")
            => callerResult[c] = callerResult[d]

\* Two callers that both called before the initialization finished (both were
\* handed the in-flight promise) have both resolved, after a model load.
C1_Witness ==
    /\ \A c \in Callers : callerPc[c] = "resolved" /\ callerWait[c] = 1
    /\ calls = [c \in Callers |-> 1]
    /\ loadCalls = 1 /\ ctxCalls = 1 /\ sessCreated = 1

\* C2: after a failed initialization the next getSession() call starts a new
\* initialization attempt instead of being handed the cached failure.
C2_RetryAfterFailure ==
    [][\A c \in Callers :
         ( /\ callerPc[c] # "awaiting"
           /\ callerPc'[c] = "awaiting"
           /\ initPromise # 0
           /\ attemptPc[initPromise] = "failed" )
         => Len(attemptPc') = Len(attemptPc) + 1]_vars

\* ================================================================
\* Specification of the Stream Adapter: one doStream request against a
\* provider that was given its session.
\* ================================================================
StreamInit ==
    /\ Constructor([session |-> TRUE, llamaModel |-> FALSE, llamaContext |-> FALSE])
    /\ StreamIdle
    /\ NoEarlierRequest
    /\ GenIdle
    /\ HistIdle
    /\ OaIdle

StreamNext ==
    \/ \E p \in Prompts, t \in ToolLists : DoStream(p, t) /\ UNCHANGED notStream
    \/ \E chunk \in {"", "t"} : OnTextChunk(chunk) /\ UNCHANGED notStream
    \/ \E chunk \in ThoughtChunks \cup OtherChunks :
          OnResponseChunk(chunk) /\ UNCHANGED notStream
    \/ \E n \in {"X", "Y"}, p \in Params : ToolHandler(n, p) /\ UNCHANGED notStream
    \/ GenerationReturns /\ UNCHANGED notStream
    \/ \E err \in ThrownValues : GenerationThrows(err) /\ UNCHANGED notStream

SpecStream == StreamInit /\ [][StreamNext]_vars

\* ---------------------------------------------------------------- claims
Idx(type) == {i \in 1..Len(events) : events[i].type = type}
Count(type) == Cardinality(Idx(type))
TextEvents == Idx("text-start") \cup Idx("text-delta") \cup Idx("text-end")
\* the tool handler invocations of this generation, in order
Fired == SelectSeq(rtLog, LAMBDA e : e.cb = "tool")
\* the non-empty text fragments the runtime delivered
NonEmptyTexts == {i \in 1..Len(rtLog) : rtLog[i].cb = "text" /\ rtLog[i].chunk # ""}
EmptyTexts == {i \in 1..Len(rtLog) : rtLog[i].cb = "text" /\ rtLog[i].chunk = ""}
\* reasoning runs open after the first k events
OpenReasoning(k) ==
    Cardinality({i \in Idx("reasoning-start") : i <= k})
      - Cardinality({i \in Idx("reasoning-end") : i <= k})
Completed == streamPc = "done" /\ rtOutcome = "returned"
SingleUserMessage(prompt) == Len(prompt) = 1 /\ prompt[1].role = "user"

\* C3: if a tool handler is invoked during a doStream generation, the stream
\* holds exactly one tool-call event (fresh id, the tool's name, the JSON text of
\* the parameters), immediately followed by exactly one finish event with reason
\* tool-calls, and is then closed.
C3_OneToolCallThenFinish ==
    (streamPc = "done" /\ Fired # <<>>) =>
        /\ Count("tool-call") = 1
        /\ Count("finish") = 1
        /\ \A i \in Idx("tool-call") :
              /\ events[i].toolCallId \notin {textId, reasoningId}
              /\ events[i].toolName = Fired[1].toolName
              /\ events[i].input = JSONstringify(Fired[1].params)
              /\ i < Len(events)
              /\ events[i + 1] = Finish("tool-calls")
        /\ streamState = "closed"

\* C4: the text events are well-bracketed: text-start at most once and before
\* every text-delta, text-end at most once and after every text-delta, all with
\* the same text id.
C4_TextWellBracketed ==
    /\ Count("text-start") <= 1
    /\ Count("text-end") <= 1
    /\ \A i \in Idx("text-delta") :
         /\ \E s \in Idx("text-start") : s < i
         /\ \A e \in Idx("text-end") : i < e
    /\ \A i \in TextEvents : events[i].id = textId

\* C5: the reasoning events are well-bracketed: every reasoning-delta lies
\* between the reasoning-start and the reasoning-end of its run, and at most one
\* run is open at a time.
C5_ReasoningWellBracketed ==
    /\ \A k \in 0..Len(events) : OpenReasoning(k) \in {0, 1}
    /\ \A i \in Idx("reasoning-delta") : OpenReasoning(i) = 1
    /\ \A i \in Idx("reasoning-start") : OpenReasoning(i - 1) = 0
    /\ \A i \in Idx("reasoning-end") : OpenReasoning(i - 1) = 1

\* C6: when a tool fires while a reasoning run is open, a reasoning-end is
\* emitted before the finish event with reason tool-calls: no reasoning run is
\* open at a finish event of a tool call.
C6_ReasoningClosedBeforeToolFinish ==
    \A i \in Idx("finish") :
        events[i].finishReason = "tool-calls" => OpenReasoning(i) = 0

\* C7: when a tool fires after a text-delta was emitted, a text-end for the
\* text id precedes the tool-call event, and text-end is emitted only once.
C7_TextEndBeforeToolCall ==
    /\ \A i \in Idx("tool-call") :
         (\E j \in Idx("text-delta") : j < i)
            => \E k \in Idx("text-end") : k < i /\ events[k] = TextEnd(textId)
    /\ Count("text-end") <= 1

\* A tool fired after streamed text, the generation is over and the stream is
\* closed with its one text-end right before the tool-call.
C7_Witness ==
    /\ streamPc = "done"
    /\ streamState = "closed"
    /\ Len(events) = 5
    /\ events[2].type = "text-delta"
    /\ events[3] = TextEnd(textId)
    /\ events[4].type = "tool-call"

\* C8: when a tool fires before any text-delta, the event sequence of the
\* request is exactly [tool-call, finish{tool-calls}], with no text-start and no
\* text-end anywhere. The sequence is read here without its reasoning events,
\* which the claim does not speak of.
NonReasoningEvents ==
    SelectSeq(events, LAMBDA e : e.type \notin {"reasoning-start", "reasoning-delta",
                                                "reasoning-end"})
C8_ExactlyToolCallFinish ==
    ( /\ streamPc = "done"
      /\ Fired # <<>>
      /\ \A i \in Idx("tool-call") : \A j \in Idx("text-delta") : i < j )
    => /\ Len(NonReasoningEvents) = 2
       /\ NonReasoningEvents[1].type = "tool-call"
       /\ NonReasoningEvents[2] = Finish("tool-calls")
       /\ Count("text-start") = 0
       /\ Count("text-end") = 0

\* C9 as stated: one user message, no tool declarations, a generation that
\* completes: exactly one text-start, any number of text-delta, one text-end if
\* a delta occurred, finish{stop} last, no tool-call.
C9_AsStated ==
    (Completed /\ SingleUserMessage(req.prompt) /\ req.tools = <<>>) =>
        /\ Count("text-start") = 1
        /\ (Count("text-delta") > 0 => Count("text-end") = 1)
        /\ events # <<>> /\ events[Len(events)] = Finish("stop")
        /\ Count("tool-call") = 0

\* C9 (amended): one user message, no tool declarations, a generation that
\* completes: if a text-delta occurred there is exactly one text-start before
\* all of them and exactly one text-end after all of them, otherwise neither;
\* finish{stop} is the one finish event and the last event; no tool-call.
C9_SingleUserMessageStream ==
    (Completed /\ SingleUserMessage(req.prompt) /\ req.tools = <<>>) =>
        /\ IF Count("text-delta") > 0
             THEN /\ Count("text-start") = 1
                  /\ Count("text-end") = 1
                  /\ \A i \in Idx("text-delta") :
                        /\ \A s \in Idx("text-start") : s < i
                        /\ \A e \in Idx("text-end") : i < e
             ELSE Count("text-start") = 0 /\ Count("text-end") = 0
        /\ events # <<>> /\ events[Len(events)] = Finish("stop")
        /\ Count("finish") = 1
        /\ Count("tool-call") = 0
        /\ streamState = "closed"

\* A completed generation for one user message without tools that streamed two
\* fragments.
C9_Witness ==
    /\ Completed
    /\ SingleUserMessage(req.prompt)
    /\ req.tools = <<>>
    /\ Count("text-delta") = 2
    /\ events[Len(events)] = Finish("stop")

\* C10: a generation that completes without a tool firing and without any
\* non-empty text fragment still emits finish{stop}, and the sequence holds
\* neither text-start nor text-end.
C10_NoTextNoBracket ==
    (Completed /\ Fired = <<>> /\ NonEmptyTexts = {}) =>
        /\ events # <<>> /\ events[Len(events)] = Finish("stop")
        /\ Count("finish") = 1
        /\ Count("text-start") = 0
        /\ Count("text-end") = 0

\* A completed generation in which the runtime delivered only empty fragments.
C10_Witness ==
    /\ Completed
    /\ Fired = <<>>
    /\ NonEmptyTexts = {}
    /\ EmptyTexts # {}
    /\ events = <<Finish("stop")>>

\* C11: when the generation call of a doStream request throws because of the
\* cancellation a fired tool signaled, the error is swallowed: the stream is
\* closed after the tool-call and finish events and is never errored.
C11_CancellationSwallowed ==
    (streamPc = "done" /\ rtOutcome = "threw" /\ thrown = "tool-call-detected") =>
        /\ streamState = "closed"
        /\ \E i \in Idx("tool-call") :
              i < Len(events) /\ events[i + 1] = Finish("tool-calls")

\* The generation threw the abort reason after one tool fired.
C11_Witness ==
    /\ streamPc = "done"
    /\ rtOutcome = "threw"
    /\ thrown = "tool-call-detected"
    /\ Len(Fired) = 1
    /\ streamState = "closed"
    /\ Count("finish") = 1

\* C12: a failure of the generation call that the tool-call cancellation did
\* not cause, before or after a tool fired, leaves the stream errored, and no
\* finish event was emitted on it.
C12_GenuineFailureErrors ==
    (streamPc = "done" /\ rtOutcome = "threw" /\ thrown = "error") =>
        /\ streamState = "errored"
        /\ Count("finish") = 0

\* a message that is a tool result or carries a tool-result part
ContainsToolResult(prompt) ==
    \E i \in 1..Len(prompt) :
        \/ prompt[i].role = "tool"
        \/ /\ prompt[i].role \in {"user", "assistant"}
           /\ \E j \in 1..Len(prompt[i].content) :
                  prompt[i].content[j].type = "tool-result"

\* C13: doStream installs the translated conversation as the session's history,
\* before the generation call, exactly when the prompt has more than one message
\* or contains a tool result; for a single message without a tool result the
\* history is untouched and the final message's text is the prompt.
C13_HistoryInstalledOnContinuation ==
    (streamPc # "idle") =>
        /\ historySet = (Len(req.prompt) > 1 \/ ContainsToolResult(req.prompt))
        /\ historySet => chatHistory = ConvertToLlamaChatHistory(req.prompt)
        /\ ~historySet =>
              /\ chatHistory = <<>>
              /\ promptText = JoinText(req.prompt[Len(req.prompt)].content)

\* A generation is running against the installed history of a conversation of
\* several messages without any tool result.
C13_Witness ==
    /\ streamPc = "generating"
    /\ historySet
    /\ Len(req.prompt) > 1
    /\ ~ContainsToolResult(req.prompt)
    /\ chatHistory = ConvertToLlamaChatHistory(req.prompt)
    /\ chatHistory # <<>>

\* C14: whenever doStream has installed the conversation as session history,
\* the prompt string given to the generation call is the empty string.
C14_EmptyPromptOnContinuation ==
    (streamPc # "idle" /\ historySet) => promptText = ""

\* ================================================================
\* Specification of the History Translator: convertToLlamaChatHistory
\* applied to a conversation, one step of its loops at a time.
\* ================================================================
\* The messages the conversations are built from.
HistoryMessages ==
    { UserMsg(<<TextPart("a"), FilePart, TextPart("b")>>),
      SystemMsg("sys"),
      AssistantMsg(<<ToolCallPart("X", "p1")>>),
      AssistantMsg(<<TextPart("ok")>>),
      AssistantMsg(<<ToolCallPart("X", "p1"), ToolCallPart("X", "p2")>>),
      AssistantMsg(<<ReasoningPart("th"), TextPart("ok"), ToolCallPart("Y", "p1")>>),
      ToolMsg(<<ToolResultPart("X", JsonOutput("v"))>>),
      ToolMsg(<<ToolResultPart("X", JsonOutput("0"))>>),
      ToolMsg(<<ToolResultPart("X", TextOutput("t"))>>),
      ToolMsg(<<ToolResultPart("Y", JsonOutput("w")),
                ToolResultPart("X", JsonOutput("v2"))>>),
      [role |-> "function", content |-> <<TextPart("f")>>] }

HistoryPrompts ==
    UNION { [1..n -> HistoryMessages] : n \in 1..MaxMsgs }

\* 243-244: the call, with an empty local history.
HistoryInit ==
    /\ Constructor([session |-> TRUE, llamaModel |-> FALSE, llamaContext |-> FALSE])
    /\ StreamIdle
    /\ NoEarlierRequest
    /\ GenIdle
    /\ OaIdle
    /\ hPrompt \in HistoryPrompts
    /\ hMsg = 1
    /\ hPart = 0
    /\ hHistory = <<>>
    /\ hPc = "running"
    /\ hBefore = <<>>
    /\ hLastPart = NoPart
    /\ hWarned = <<>>
    /\ hOutputs = <<>>

\* 246-304, 339-341: one iteration of the outer loop for a message that is
\* not a tool message (or a tool message without parts).
TranslateMessage ==
    /\ hPc = "running"
    /\ hMsg <= Len(hPrompt)
    /\ IF hPrompt[hMsg].role = "tool" THEN hPrompt[hMsg].content = <<>> ELSE TRUE
    /\ hBefore' = hHistory
    /\ hHistory' = ConvertMessage(hHistory, hPrompt[hMsg])
    /\ hWarned' = IF SupportedRole(hPrompt[hMsg]) THEN hWarned
                  ELSE Append(hWarned, hPrompt[hMsg].role)
    /\ hLastPart' = NoPart
    /\ hMsg' = hMsg + 1
    /\ hPart' = 0
    /\ UNCHANGED <<hPrompt, hPc, hOutputs>>

\* 309-335: one iteration of the inner loop over the parts of a tool message.
TranslateToolPart ==
    /\ hPc = "running"
    /\ hMsg <= Len(hPrompt)
    /\ hPrompt[hMsg].role = "tool"
    /\ hPart < Len(hPrompt[hMsg].content)
    /\ LET part == hPrompt[hMsg].content[hPart + 1]
       IN /\ hBefore' = hHistory
          /\ hHistory' = ApplyToolResult(hHistory, part)
          /\ hLastPart' = IF part.type = "tool-result" THEN part ELSE NoPart
    /\ IF hPart + 1 = Len(hPrompt[hMsg].content)
         THEN hMsg' = hMsg + 1 /\ hPart' = 0
         ELSE hMsg' = hMsg /\ hPart' = hPart + 1
    /\ UNCHANGED <<hPrompt, hPc, hWarned, hOutputs>>

\* 344: return history
TranslateReturn ==
    /\ hPc = "running"
    /\ hMsg > Len(hPrompt)
    /\ hPc' = "done"
    /\ hLastPart' = NoPart
    /\ hBefore' = hHistory
    /\ hOutputs' = Append(hOutputs, [prompt |-> hPrompt, history |-> hHistory])
    /\ UNCHANGED <<hPrompt, hMsg, hPart, hHistory, hWarned>>

HistoryNext ==
    \/ TranslateMessage /\ UNCHANGED notHist
    \/ TranslateToolPart /\ UNCHANGED notHist
    \/ TranslateReturn /\ UNCHANGED notHist

SpecHistory == HistoryInit /\ [][HistoryNext]_vars

\* The loop, run to its end, computes the function.
TranslatorComputes ==
    hPc = "done" => hHistory = ConvertToLlamaChatHistory(hPrompt)

\* ---------------------------------------------------------------- claims
ModelTurns(h) == {i \in 1..Len(h) : h[i].type = "model"}
LastTurn(h) ==
    IF ModelTurns(h) = {} THEN 0
    ELSE CHOOSE i \in ModelTurns(h) : \A j \in ModelTurns(h) : j <= i
FunctionCalls(h, i) ==
    {k \in 1..Len(h[i].response) : h[i].response[k].type = "functionCall"}
CallsNamed(h, i, name) ==
    {k \in FunctionCalls(h, i) : h[i].response[k].name = name}
\* the calls of a turn that have no result
Unresolved(h, i, name) ==
    {k \in CallsNamed(h, i, name) : h[i].response[k].result = Undefined}
FirstOf(S) == CHOOSE k \in S : \A l \in S : k <= l
\* the value a result part is to leave in the segment
Unwrapped(output) ==
    IF output.type = "json" THEN [js |-> "value", v |-> output.value]
    ELSE [js |-> "object", o |-> output]
Attached(h, i, k, output) ==
    [h EXCEPT ![i].response[k].result = Unwrapped(output)]
\* no segment holds a falsy result
NoFalsyResult(h) ==
    \A i \in ModelTurns(h) : \A k \in FunctionCalls(h, i) :
        LET r == h[i].response[k].result
        IN r.js = "value" => r.v \notin FalsyValues

\* C17, as stated: a tool-result part is attached to the nearest preceding
\* model-response turn that has an unresolved function-call segment with the
\* part's tool name; turns without such a segment are passed over.
C17_AsStated ==
    (hLastPart # NoPart /\ NoFalsyResult(hBefore)) =>
        LET name == hLastPart.toolName
            cand == {i \in ModelTurns(hBefore) : Unresolved(hBefore, i, name) # {}}
        IN cand # {} =>
             LET t == CHOOSE i \in cand : \A j \in cand : j <= i
             IN hHistory = Attached(hBefore, t, FirstOf(Unresolved(hBefore, t, name)),
                                    hLastPart.output)

\* C17: a tool-result part touches the most recent model-response turn only.
\* When that turn has an unresolved function-call segment with the part's tool
\* name, one of its segments with that name receives the result and nothing else
\* changes; when it has no function-call segment with that name (or there is no
\* model-response turn) the history is left as it was, even if an earlier turn
\* has an unresolved segment with that name.
C17_LastTurnOnly ==
    (hLastPart # NoPart) =>
        LET name == hLastPart.toolName
            m == LastTurn(hBefore)
        IN /\ Len(hHistory) = Len(hBefore)
           /\ \A i \in 1..Len(hBefore) : i # m => hHistory[i] = hBefore[i]
           /\ (m # 0 /\ Unresolved(hBefore, m, name) # {}) =>
                \E k \in CallsNamed(hBefore, m, name) :
                    hHistory = Attached(hBefore, m, k, hLastPart.output)
           /\ (m = 0 \/ CallsNamed(hBefore, m, name) = {}) => hHistory = hBefore

\* A result part arrived when an earlier model-response turn had an unresolved
\* call with its name and the most recent turn had no call with that name.
C17_Witness ==
    /\ hLastPart # NoPart
    /\ LastTurn(hBefore) # 0
    /\ CallsNamed(hBefore, LastTurn(hBefore), hLastPart.toolName) = {}
    /\ \E i \in ModelTurns(hBefore) :
          i < LastTurn(hBefore) /\ Unresolved(hBefore, i, hLastPart.toolName) # {}
    /\ hHistory = hBefore

\* C18: a result once attached to a function-call segment is never overwritten
\* by a later tool-result part, and with several same-named pending calls in the
\* model turn successive tool-results fill them in segment order, one each.
C18_ResultSetOnce ==
    (hLastPart # NoPart) =>
        /\ \A i \in ModelTurns(hBefore) : \A k \in FunctionCalls(hBefore, i) :
              hBefore[i].response[k].result # Undefined =>
                  hHistory[i].response[k].result = hBefore[i].response[k].result
        /\ LET m == LastTurn(hBefore)
               name == hLastPart.toolName
           IN (m # 0 /\ Unresolved(hBefore, m, name) # {}) =>
                 hHistory = Attached(hBefore, m, FirstOf(Unresolved(hBefore, m, name)),
                                     hLastPart.output)

ToolCallParts(message) ==
    {j \in 1..Len(message.content) : message.content[j].type = "tool-call"}
ResultPartsFor(message, name) ==
    {j \in 1..Len(message.content) :
        /\ message.content[j].type = "tool-result"
        /\ message.content[j].toolName = name}
\* [assistant message with one tool-call part, tool message with one matching
\* tool-result part]
CallThenResult(prompt) ==
    /\ Len(prompt) = 2
    /\ prompt[1].role = "assistant"
    /\ Cardinality(ToolCallParts(prompt[1])) = 1
    /\ prompt[2].role = "tool"
    /\ LET call == prompt[1].content[FirstOf(ToolCallParts(prompt[1]))]
       IN Cardinality(ResultPartsFor(prompt[2], call.toolName)) = 1

\* C19: translating [assistant message with one tool-call part, tool message
\* with a matching tool-result] yields exactly one model-response turn whose
\* function-call segment holds the raw value of a json output and the output
\* itself for any other output type.
C19_CallThenResultRoundTrip ==
    (hPc = "done" /\ CallThenResult(hPrompt)) =>
        LET call == hPrompt[1].content[FirstOf(ToolCallParts(hPrompt[1]))]
            part == hPrompt[2].content[FirstOf(ResultPartsFor(hPrompt[2], call.toolName))]
        IN /\ Len(hHistory) = 1
           /\ hHistory[1].type = "model"
           /\ Cardinality(FunctionCalls(hHistory, 1)) = 1
           /\ LET seg == hHistory[1].response[FirstOf(FunctionCalls(hHistory, 1))]
              IN /\ seg.name = call.toolName
                 /\ seg.params = call.input
                 /\ seg.result = Unwrapped(part.output)

\* The translation of such a conversation with a json output has returned.
C19_Witness ==
    /\ hPc = "done"
    /\ CallThenResult(hPrompt)
    /\ \E k \in FunctionCalls(hHistory, 1) :
          hHistory[1].response[k].result = [js |-> "value", v |-> "v"]

\* C20: a tool-result part with no pending call (no model-response turn before
\* it, or no function-call segment with its tool name that is without a result)
\* is dropped: the history is the one there was without it.
C20_UnmatchedDropped ==
    ( /\ hLastPart # NoPart
      /\ \A i \in ModelTurns(hBefore) :
            Unresolved(hBefore, i, hLastPart.toolName) = {} )
        => hHistory = hBefore

\* ================================================================
\* Specification of doGenerate (395-509): one request against a provider
\* that was given its session, with the runtime as the environment.
\* ================================================================
\* 416-458: the keys of the function table doGenerate builds.
GenerateFunctions(tools) ==
    {tools[i].name : i \in {j \in 1..Len(tools) :
                              tools[j].type = "function" /\ tools[j].hasInputSchema}}

\* What promptWithMeta resolves to: the response items and responseText, the
\* concatenation of the items that are plain strings.
ThoughtSegment == [type |-> "segment", segmentType |-> "thought", text |-> "th"]
RuntimeResults ==
    { [response |-> <<>>, responseText |-> ""],
      [response |-> <<[type |-> "text", text |-> "4"]>>, responseText |-> "4"],
      [response |-> <<ThoughtSegment>>, responseText |-> ""],
      [response |-> <<ThoughtSegment, [type |-> "text", text |-> "4"]>>,
       responseText |-> "4"] }

\* 500: result.responseText || result.response
GenText(result) ==
    IF result.responseText # "" THEN [js |-> "string", s |-> result.responseText]
    ELSE [js |-> "array", a |-> result.response]

\* 398-458: up to the generation call.
DoGenerate(prompt, tools) ==
    /\ gPc = "idle"
    /\ session # Null
    /\ gReq' = [prompt |-> prompt, tools |-> tools]
    /\ gPromptText' = ExtractPromptText(prompt)
    /\ toolCallsTriggered' = <<>>
    /\ gAborted' = FALSE
    /\ gPc' = "generating"
    /\ functions' = GenerateFunctions(tools)
    /\ handlerLog' = <<>>
    /\ UNCHANGED <<gOutcome, gResult, gThrown, gRtResult, gFired, nextId>>

\* 428-454: what the handler does, in order.
GenHandlerSteps == <<"push", "abort", "return">>

\* 428-449: the handler of a declared function.
GenToolHandler(toolName, params) ==
    /\ gPc = "generating"
    /\ toolName \in functions
    /\ Len(gFired) < MaxCallbacks
    /\ toolCallsTriggered' = Append(toolCallsTriggered,
          [name |-> toolName, params |-> params, toolCallId |-> nextId + 1])
    /\ nextId' = nextId + 1
    /\ gAborted' = TRUE
    /\ gFired' = Append(gFired, [name |-> toolName, params |-> params])
    /\ handlerLog' = handlerLog \o HandlerRun(GenHandlerSteps, toolName, Len(toolCallsTriggered))
    /\ UNCHANGED functions
    /\ UNCHANGED <<gReq, gPc, gPromptText, gOutcome, gResult, gThrown, gRtResult>>

\* 478-483
ToolCallContent(triggered) ==
    [i \in 1..Len(triggered) |->
        [type |-> "tool-call", toolCallId |-> triggered[i].toolCallId,
         toolName |-> triggered[i].name, args |-> triggered[i].params]]

\* 461-508: promptWithMeta resolves and doGenerate returns.
GenReturns(result) ==
    /\ gPc = "generating"
    /\ gRtResult' = result
    /\ gResult' = IF Len(toolCallsTriggered) > 0
                    THEN [content |-> ToolCallContent(toolCallsTriggered),
                          finishReason |-> "tool-calls"]
                    ELSE [content |-> <<[type |-> "text", text |-> GenText(result)]>>,
                          finishReason |-> "stop"]
    /\ gOutcome' = "fulfilled"
    /\ gPc' = "done"
    /\ UNCHANGED <<gReq, gPromptText, toolCallsTriggered, gAborted, gThrown, gFired,
                   nextId, functions, handlerLog>>

\* 461: promptWithMeta rejects; nothing catches it, so doGenerate rejects.
GenThrows(err) ==
    /\ gPc = "generating"
    /\ err = "tool-call-detected" => gAborted
    /\ gThrown' = err
    /\ gOutcome' = "rejected"
    /\ gPc' = "done"
    /\ UNCHANGED <<gReq, gPromptText, toolCallsTriggered, gAborted, gResult, gRtResult,
                   gFired, nextId, functions, handlerLog>>

GenerateInit ==
    /\ Constructor([session |-> TRUE, llamaModel |-> FALSE, llamaContext |-> FALSE])
    /\ StreamIdle
    /\ NoEarlierRequest
    /\ GenIdle
    /\ HistIdle
    /\ OaIdle

GenerateNext ==
    \/ \E p \in Prompts, t \in ToolLists : DoGenerate(p, t) /\ UNCHANGED notGen
    \/ \E n \in {"X", "Y"}, p \in Params : GenToolHandler(n, p) /\ UNCHANGED notGen
    \/ \E r \in RuntimeResults : GenReturns(r) /\ UNCHANGED notGen
    \/ \E err \in ThrownValues : GenThrows(err) /\ UNCHANGED notGen

SpecGenerate == GenerateInit /\ [][GenerateNext]_vars

\* ---------------------------------------------------------------- claims

\* C15: doGenerate runs the same state machine as doStream: for the same
\* request it passes the prompt string doStream passes, and for a conversation
\* of more than one message or with tool results it installs the translated
\* conversation as session history.
C15_GenerateLikeStream ==
    (gPc # "idle") =>
        /\ gPromptText = StreamPromptText(gReq.prompt)
        /\ IsContinuation(gReq.prompt) =>
              chatHistory = ConvertToLlamaChatHistory(gReq.prompt)

\* C16: doGenerate returns finishReason tool-calls exactly when a tool handler
\* was invoked during the generation, its content then being the invocations in
\* firing order, each with its own toolCallId; otherwise it returns finishReason
\* stop and one text part holding the generated text.
C16_GenerateResult ==
    (gOutcome = "fulfilled") =>
        /\ (gResult.finishReason = "tool-calls") = (Len(gFired) > 0)
        /\ Len(gFired) > 0 =>
              /\ Len(gResult.content) = Len(gFired)
              /\ \A i \in 1..Len(gFired) :
                    /\ gResult.content[i].type = "tool-call"
                    /\ gResult.content[i].toolName = gFired[i].name
                    /\ gResult.content[i].args = gFired[i].params
              /\ \A i, j \in 1..Len(gFired) :
                    i # j => gResult.content[i].toolCallId # gResult.content[j].toolCallId
        /\ Len(gFired) = 0 =>
              /\ gResult.finishReason = "stop"
              /\ gResult.content =
                    <<[type |-> "text",
                       text |-> [js |-> "string", s |-> gRtResult.responseText]]>>

\* ================================================================
\* History Translator, continued
\* ================================================================
\* the conversation without its messages of an unsupported role
WithoutUnsupported(prompt) == SelectSeq(prompt, SupportedRole)
UnsupportedIn(prompt) == {i \in 1..Len(prompt) : ~SupportedRole(prompt[i])}

\* C21: a message whose role is not system, user, assistant or tool is
\* reported with one warning and skipped: the translation goes on and its
\* output is the translation of the conversation without that message.
C21_UnsupportedRoleSkipped ==
    (hPc = "done") =>
        /\ hHistory = ConvertToLlamaChatHistory(WithoutUnsupported(hPrompt))
        /\ Len(hWarned) = Cardinality(UnsupportedIn(hPrompt))

\* A conversation with an unsupported message before a supported one has been
\* translated, and the supported one produced its turn.
C21_Witness ==
    /\ hPc = "done"
    /\ Len(hPrompt) >= 2
    /\ ~SupportedRole(hPrompt[1])
    /\ hPrompt[2].role = "user"
    /\ hWarned # <<>>
    /\ hHistory # <<>>

\* ================================================================
\* Session Manager, continued. Every doGenerate (398) and doStream (514)
\* request of every chat() model starts with getSession() of the one
\* provider: the callers are the requests.
\* ================================================================

\* C22: over any sequence of requests, every successful getSession() has
\* returned the same session object: once the provider has a session it is
\* never replaced or torn down, and at most one is ever created.
C22_OneSessionForAllRequests ==
    [][ /\ session # Null => session' = session
        /\ returned' \subseteq {session'}
        /\ Cardinality(returned') <= 1
        /\ sessCreated' <= 1 ]_vars

\* One request was served before and one after another request's getSession(),
\* all by the session that was created.
C22_Witness ==
    /\ \A c \in Callers : callerPc[c] = "resolved" /\ calls[c] = MaxCalls
    /\ sessCreated = 1
    /\ returned = {session}
    /\ \A c \in Callers : callerResult[c] = session

\* C23: with a session injected in the configuration, initialization is a
\* no-op: getSession() returns the injected session, no initialization
\* closure is started (no runtime acquisition, model resolution, model load,
\* context creation or session construction) and initPromise, llamaModel and
\* llamaContext stay as the constructor left them.
C23_InjectedSessionNoInit ==
    cfg.session =>
        /\ session = Injected("session")
        /\ initPromise = 0
        /\ attemptPc = <<>>
        /\ loadCalls = 0 /\ ctxCalls = 0 /\ sessCreated = 0
        /\ llamaModel = (IF cfg.llamaModel THEN Injected("model") ELSE Null)
        /\ llamaContext = (IF cfg.llamaContext THEN Injected("context") ELSE Null)
        /\ \A c \in Callers :
              /\ callerPc[c] # "rejected"
              /\ callerPc[c] = "resolved" => callerResult[c] = Injected("session")

\* Every caller has called getSession() of a provider with an injected
\* session (and no injected model) MaxCalls times and was served.
C23_Witness ==
    /\ cfg.session /\ ~cfg.llamaModel
    /\ \A c \in Callers : callerPc[c] = "resolved" /\ calls[c] = MaxCalls
    /\ returned = {Injected("session")}

\* ================================================================
\* Specification of one request, streaming (doStream) or not (doGenerate),
\* against a runtime that may hold the function table of an earlier request.
\* ================================================================
\* The function tables an earlier request can have given the runtime.
EarlierTables ==
    {ConvertTools(t) : t \in ToolLists \cup {<<FunctionTool("Y")>>}}

RequestInit ==
    /\ Constructor([session |-> TRUE, llamaModel |-> FALSE, llamaContext |-> FALSE])
    /\ StreamIdle
    /\ functions \in EarlierTables
    /\ GenIdle
    /\ HistIdle
    /\ OaIdle

\* 414, 542, 467, 558: the signal given to promptWithMeta is the one of the
\* request's own AbortController; options.abortSignal is not read.
PassesCallerSignal_Linked == TRUE
PassesCallerSignal == FALSE

\* The caller aborts the signal it supplied in options.abortSignal while the
\* generation call of its request runs.
CallerAborts ==
    /\ streamPc = "generating" \/ gPc = "generating"
    /\ ~callerSignal
    /\ callerSignal' = TRUE
    /\ aborted' = (aborted \/ (PassesCallerSignal /\ streamPc = "generating"))
    /\ gAborted' = (gAborted \/ (PassesCallerSignal /\ gPc = "generating"))
    /\ UNCHANGED <<req, streamPc, events, streamState, textStartSent, textEndSent,
                   toolCallAborted, textId, reasoningId, promptText, chatHistory,
                   historySet, rtSegOpen, rtLog, rtOutcome, thrown, nextId,
                   functions, handlerLog>>
    /\ UNCHANGED <<gReq, gPc, gPromptText, toolCallsTriggered, gOutcome, gResult,
                   gThrown, gRtResult, gFired>>
    /\ UNCHANGED <<rPc, rReq, rOverlap>>
    /\ UNCHANGED <<provVars, histVars, oaVars, healthVars>>

RequestNext ==
    \/ gPc = "idle" /\ StreamNext
    \/ streamPc = "idle" /\ GenerateNext
    \/ CallerAborts

SpecRequest == RequestInit /\ [][RequestNext]_vars

\* ---------------------------------------------------------------- claims
\* the steps of the log that record or emit the tool call
RecordSteps == {"onToolCall", "push"}
Aborts == {k \in 1..Len(handlerLog) : handlerLog[k].step = "abort"}
Invocations == Len(Fired) + Len(gFired)

\* C24: a tool handler the runtime invokes first records or emits the tool
\* call (onFire), then signals the request's cancellation with the reason
\* 'tool-call-detected', then returns; the cancellation is never signaled
\* before the tool call was recorded or emitted.
C24_FireThenCancelThenReturn ==
    /\ Len(handlerLog) = 3 * Invocations
    /\ Cardinality(Aborts) = Invocations
    /\ \A k \in Aborts :
          /\ k > 1 /\ k < Len(handlerLog)
          /\ handlerLog[k - 1].step \in RecordSteps
          /\ handlerLog[k - 1].toolName = handlerLog[k].toolName
          /\ handlerLog[k + 1].step = "return"
          /\ handlerLog[k + 1].toolName = handlerLog[k].toolName
          /\ handlerLog[k].reason = "tool-call-detected"
          /\ handlerLog[k].recorded >= 1
          /\ handlerLog[k].recorded = Cardinality({j \in 1..k : handlerLog[j].step \in RecordSteps})
    /\ aborted => Count("tool-call") >= 1
    /\ gAborted => Len(toolCallsTriggered) >= 1

\* Two handlers ran in one streaming request.
C24_Witness ==
    /\ streamPc = "generating"
    /\ aborted
    /\ Len(Fired) = 2
    /\ Len(handlerLog) = 6
    /\ Count("tool-call") = 2

\* the tools of a request that are of function kind and have an input schema
FunctionToolNames(tools) ==
    {tools[i].name : i \in {j \in 1..Len(tools) :
        tools[j].type = "function" /\ tools[j].hasInputSchema}}
CurrentTools ==
    IF streamPc # "idle" THEN req.tools ELSE gReq.tools

\* C25: the function table given to the runtime for a request holds exactly the
\* request's tools of function kind with an input schema, by name; it is built
\* anew for every request, so a tool of an earlier request's table that this
\* request does not declare cannot be invoked in it.
C25_FunctionTablePerRequest ==
    (streamPc # "idle" \/ gPc # "idle") =>
        /\ functions = FunctionToolNames(CurrentTools)
        /\ \A i \in 1..Len(Fired) : Fired[i].toolName \in FunctionToolNames(req.tools)
        /\ \A i \in 1..Len(gFired) : gFired[i].name \in FunctionToolNames(gReq.tools)

\* A request that declares a provider-defined tool Y and a function tool X is
\* running with the table {X}, and X fired.
C25_Witness ==
    /\ streamPc = "generating"
    /\ Len(req.tools) = 2
    /\ functions = {"X"}
    /\ Len(Fired) = 1
    /\ Fired[1].toolName = "X"

\* ================================================================
\* The OpenAI-compatible surface: api/server.ts and openai-handler.ts,
\* with session.prompt as the environment.
\* ================================================================
\* The request bodies: messages missing, empty, or one or two messages.
ChatMessage(role, content) == [role |-> role, content |-> content]
Bodies ==
    { [hasMessages |-> h, messages |-> m, stream |-> st] :
        h \in BOOLEAN, st \in BOOLEAN,
        m \in { <<>>,
                <<ChatMessage("user", "hi")>>,
                <<ChatMessage("system", "sys"), ChatMessage("user", "hi")>> } }
      \ { [hasMessages |-> FALSE, messages |-> m, stream |-> st] :
            st \in BOOLEAN,
            m \in { <<ChatMessage("user", "hi")>>,
                    <<ChatMessage("system", "sys"), ChatMessage("user", "hi")>> } }

\* server.ts 98: !request.messages || request.messages.length === 0
MessagesMissing(body) == ~body.hasMessages \/ Len(body.messages) = 0

\* openai-handler.ts 112, 174: the delta of a fragment's chunk, as its set of
\* key/value pairs.
DeltaFor_AlwaysRole(first, chunk) == {<<"role", "assistant">>, <<"content", chunk>>}
DeltaFor(first, chunk) ==
    IF first THEN {<<"role", "assistant">>, <<"content", chunk>>}
    ELSE {<<"content", chunk>>}

\* 104-116, 166-178
StreamChunk(first, chunk) ==
    [object |-> "chat.completion.chunk", delta |-> DeltaFor(first, chunk),
     finish_reason |-> "null"]
\* 125-137, 186-198
FinalChunk ==
    [object |-> "chat.completion.chunk", delta |-> {}, finish_reason |-> "stop"]
\* 120, 139, 181, 200: `data: ${JSON.stringify(chunk)}\n\n`
Sse(chunk) == [line |-> "data: ", json |-> chunk, end |-> "\n\n"]
\* 140, 201
DoneLine == [line |-> "data: ", literal |-> "[DONE]", end |-> "\n\n"]

\* server.ts 139-143: initializeModel() succeeded, then app.listen.
ServerStarts_ListenFirst ==
    /\ srvPc = "starting"
    /\ srvPc' = "listening"
    /\ UNCHANGED <<srvSession, oaReq, oaMode, oaPc, isFirst, fragments, onChunkLog,
                   yielded, resStatus, headersSent, resBody, resWritten, resEnded,
                   oaOutcome>>
ServerStarts ==
    /\ srvPc = "starting"
    /\ srvSession' = TRUE
    /\ srvPc' = "listening"
    /\ UNCHANGED <<oaReq, oaMode, oaPc, isFirst, fragments, onChunkLog, yielded,
                   resStatus, headersSent, resBody, resWritten, resEnded, oaOutcome>>

\* server.ts 164-167: initializeModel() failed, process.exit(1).
ServerStartFails ==
    /\ srvPc = "starting"
    /\ srvPc' = "exited"
    /\ UNCHANGED <<srvSession, oaReq, oaMode, oaPc, isFirst, fragments, onChunkLog,
                   yielded, resStatus, headersSent, resBody, resWritten, resEnded,
                   oaOutcome>>

\* server.ts 68-70: GET /health
HttpHealth ==
    /\ srvPc = "listening"
    /\ healthSent' = healthSent \cup {[status |-> "ok", model_loaded |-> srvSession]}

\* res.status(code).json(body)
Respond(code, body) ==
    /\ resStatus' = code
    /\ resBody' = body
    /\ headersSent' = TRUE
    /\ resEnded' = TRUE

\* server.ts 89-123 up to the awaited handler call.
HttpPost(body) ==
    /\ srvPc = "listening"
    /\ oaPc = "idle"
    /\ oaReq' = body
    /\ IF ~srvSession
         THEN /\ Respond(503, [kind |-> "message", error |-> "Model not initialized"])
              /\ oaPc' = "done" /\ oaOutcome' = "returned"
              /\ UNCHANGED oaMode
         ELSE IF MessagesMissing(body)
           THEN /\ Respond(400, [kind |-> "message", error |-> "messages field is required"])
                /\ oaPc' = "done" /\ oaOutcome' = "returned"
                /\ UNCHANGED oaMode
           ELSE /\ oaMode' = IF body.stream THEN "callback" ELSE "json"
                /\ oaPc' = "prompting"
                /\ UNCHANGED <<resStatus, resBody, headersSent, resEnded, oaOutcome>>
    /\ UNCHANGED <<srvPc, srvSession, isFirst, fragments, onChunkLog, yielded, resWritten>>

\* openai-handler.ts 84-98: handleStreamingChatCompletion is called and its
\* generator is run up to the awaited session.prompt.
GeneratorCall(body) ==
    /\ srvPc = "listening"
    /\ oaPc = "idle"
    /\ ~MessagesMissing(body)
    /\ oaReq' = body
    /\ oaMode' = "generator"
    /\ oaPc' = "prompting"
    /\ UNCHANGED <<srvPc, srvSession, isFirst, fragments, onChunkLog, yielded,
                   resStatus, headersSent, resBody, resWritten, resEnded, oaOutcome>>

\* onTextChunk: 165-182 gives the chunk to onChunk, which is res.write
\* (server.ts 113-115); 103-121 returns the formatted chunk to the runtime.
OaTextChunk(chunk) ==
    /\ oaPc = "prompting"
    /\ oaMode \in {"callback", "generator"}
    /\ Len(fragments) < MaxCallbacks
    /\ fragments' = Append(fragments, chunk)
    /\ isFirst' = FALSE
    /\ IF oaMode = "callback"
         THEN /\ onChunkLog' = Append(onChunkLog, Sse(StreamChunk(isFirst, chunk)))
              /\ resWritten' = Append(resWritten, Sse(StreamChunk(isFirst, chunk)))
              /\ headersSent' = TRUE
              /\ resStatus' = 200
         ELSE UNCHANGED <<onChunkLog, resWritten, headersSent, resStatus>>
    /\ UNCHANGED <<srvPc, srvSession, oaReq, oaMode, oaPc, yielded, resBody, resEnded,
                   oaOutcome>>

\* session.prompt resolved: 57-77 and server.ts 122; 185-201 and server.ts 118;
\* 124-139, the generator's first yield.
OaPromptResolves(response) ==
    /\ oaPc = "prompting"
    /\ IF oaMode = "json"
         THEN /\ Respond(200, [kind |-> "chat.completion", content |-> response,
                               finish_reason |-> "stop"])
              /\ oaPc' = "done" /\ oaOutcome' = "returned"
              /\ UNCHANGED <<onChunkLog, resWritten, yielded>>
         ELSE IF oaMode = "callback"
           THEN /\ onChunkLog' = onChunkLog \o <<Sse(FinalChunk), DoneLine>>
                /\ resWritten' = resWritten \o <<Sse(FinalChunk), DoneLine>>
                /\ headersSent' = TRUE
                /\ resStatus' = 200
                /\ resEnded' = TRUE
                /\ oaPc' = "done" /\ oaOutcome' = "returned"
                /\ UNCHANGED <<resBody, yielded>>
           ELSE /\ yielded' = Append(yielded, Sse(FinalChunk))
                /\ oaPc' = "yieldedFinal"
                /\ UNCHANGED <<onChunkLog, resWritten, headersSent, resStatus, resEnded,
                               resBody, oaOutcome>>
    /\ UNCHANGED <<srvPc, srvSession, oaReq, oaMode, isFirst, fragments>>

\* 140-141: the consumer asks the generator for more.
GeneratorNext ==
    /\ oaPc \in {"yieldedFinal", "yieldedDone"}
    /\ IF oaPc = "yieldedFinal"
         THEN /\ yielded' = Append(yielded, DoneLine)
              /\ oaPc' = "yieldedDone"
              /\ UNCHANGED oaOutcome
         ELSE /\ oaPc' = "done"
              /\ oaOutcome' = "returned"
              /\ UNCHANGED yielded
    /\ UNCHANGED <<srvPc, srvSession, oaReq, oaMode, isFirst, fragments, onChunkLog,
                   resStatus, headersSent, resBody, resWritten, resEnded>>

\* session.prompt rejected. The generator rejects. The route handler's catch
\* (server.ts 124-135) calls res.status(500).json(...): once res.write has sent
\* the status line and headers that call cannot send anything and throws, so
\* the response keeps its status and is never ended.
OaPromptRejects ==
    /\ oaPc = "prompting"
    /\ oaPc' = "done"
    /\ oaOutcome' = "threw"
    /\ IF oaMode = "generator" \/ headersSent
         THEN UNCHANGED <<resStatus, resBody, headersSent, resEnded>>
         ELSE Respond(500, [kind |-> "error",
                            error |-> [message |-> "prompt failed",
                                       type |-> "internal_error"]])
    /\ UNCHANGED <<srvPc, srvSession, oaReq, oaMode, isFirst, fragments, onChunkLog,
                   yielded, resWritten>>

OpenAIInit ==
    /\ Constructor([session |-> FALSE, llamaModel |-> FALSE, llamaContext |-> FALSE])
    /\ StreamIdle
    /\ NoEarlierRequest
    /\ GenIdle
    /\ HistIdle
    /\ OaIdle

OpenAINext ==
    \/ ServerStarts /\ UNCHANGED notOa
    \/ ServerStartFails /\ UNCHANGED notOa
    \/ \E b \in Bodies : HttpPost(b) /\ UNCHANGED notOa
    \/ \E b \in Bodies : GeneratorCall(b) /\ UNCHANGED notOa
    \/ \E chunk \in {"a", "b"} : OaTextChunk(chunk) /\ UNCHANGED notOa
    \/ \E r \in {"", "4"} : OaPromptResolves(r) /\ UNCHANGED notOa
    \/ GeneratorNext /\ UNCHANGED notOa
    \/ OaPromptRejects /\ UNCHANGED notOa
    \/ HttpHealth /\ UNCHANGED notHealth

SpecOpenAI == OpenAIInit /\ [][OpenAINext]_vars

\* ---------------------------------------------------------------- claims
\* the request was served by the route POST /v1/chat/completions
ViaRoute == oaMode # "generator"

\* C26: POST /v1/chat/completions responds 503 when the session is
\* uninitialized, 400 when messages is missing or empty, and 500 with a body
\* {error: {message, type}} whenever the handler throws, for non-streaming and
\* for streaming requests, also when chunks were already written.
C26_HttpErrorResponses ==
    (oaPc = "done" /\ ViaRoute) =>
        /\ ~srvSession => resStatus = 503
        /\ (srvSession /\ MessagesMissing(oaReq)) => resStatus = 400
        /\ oaOutcome = "threw" =>
              /\ resStatus = 500
              /\ resBody.kind = "error"
              /\ DOMAIN resBody.error = {"message", "type"}
              /\ resEnded

\* the chunk a fragment is to be sent as
ExpectedChunk(i) ==
    [line |-> "data: ",
     json |-> [object |-> "chat.completion.chunk",
               delta |-> IF i = 1
                           THEN {<<"role", "assistant">>, <<"content", fragments[i]>>}
                           ELSE {<<"content", fragments[i]>>},
               finish_reason |-> "null"],
     end |-> "\n\n"]
ExpectedChunks == [i \in 1..Len(fragments) |-> ExpectedChunk(i)]
ExpectedTail ==
    << [line |-> "data: ",
        json |-> [object |-> "chat.completion.chunk", delta |-> {},
                  finish_reason |-> "stop"],
        end |-> "\n\n"],
       [line |-> "data: ", literal |-> "[DONE]", end |-> "\n\n"] >>

\* C27: for a streaming chat completion, onChunk receives one 'data: <chunk
\* JSON>' line per text fragment in generation order, only the first with role
\* assistant, then the final chunk with empty delta and finish_reason stop,
\* then 'data: [DONE]' as the last chunk, and nothing after it.
C27_CallbackChunkSequence ==
    (oaMode = "callback") =>
        /\ onChunkLog = IF oaOutcome = "returned" THEN ExpectedChunks \o ExpectedTail
                        ELSE ExpectedChunks
        /\ resWritten = onChunkLog

\* A streaming completion with two fragments has finished.
C27_Witness ==
    /\ oaMode = "callback"
    /\ oaPc = "done"
    /\ oaOutcome = "returned"
    /\ Len(fragments) = 2
    /\ Len(onChunkLog) = 4

\* C28: the async generator handleStreamingChatCompletion yields one SSE chunk
\* for every text fragment the runtime produces, in order, before it yields the
\* final stop chunk and 'data: [DONE]'.
C28_GeneratorYieldsFragments ==
    (oaMode = "generator" /\ oaPc = "done" /\ oaOutcome = "returned") =>
        yielded = ExpectedChunks \o ExpectedTail

\* ================================================================
\* History Translator: its turns, and repeated translations
\* ================================================================
ProducesTurn(message) == message.role \in {"system", "user", "assistant"}
SegmentParts(message) ==
    SelectSeq(message.content,
              LAMBDA part : part.type \in {"text", "reasoning", "tool-call"})
\* the text parts of a message, concatenated
RECURSIVE TextOfParts(_, _)
TextOfParts(parts, n) ==
    IF n = 0 THEN ""
    ELSE TextOfParts(parts, n - 1)
           \o (IF parts[n].type = "text" THEN parts[n].text ELSE "")
\* a segment is the translation of a part, whatever its result
SegmentOf(seg, part) ==
    IF part.type = "text" THEN seg = [type |-> "text", text |-> part.text]
    ELSE IF part.type = "reasoning"
      THEN seg = [type |-> "segment", segmentType |-> "thought", text |-> part.text]
    ELSE /\ seg.type = "functionCall"
         /\ seg.name = part.toolName
         /\ seg.params = part.input
TurnOf(turn, message) ==
    IF message.role = "system" THEN turn = [type |-> "system", text |-> message.content]
    ELSE IF message.role = "user"
      THEN turn = [type |-> "user",
                   text |-> TextOfParts(message.content, Len(message.content))]
    ELSE /\ turn.type = "model"
         /\ Len(turn.response) = Len(SegmentParts(message))
         /\ \A k \in 1..Len(turn.response) :
               SegmentOf(turn.response[k], SegmentParts(message)[k])

\* C29: the translation has exactly one turn per system, user and assistant
\* message, in message order, and none for a tool message; a user turn's text
\* is the concatenation of its text parts; an assistant turn's segments are its
\* text, reasoning and tool-call parts in part order, and each tool-call
\* segment is created without a result.
C29_OneTurnPerMessage ==
    /\ (hPc = "done") =>
          LET msgs == SelectSeq(hPrompt, ProducesTurn)
          IN /\ Len(hHistory) = Len(msgs)
             /\ \A i \in 1..Len(msgs) : TurnOf(hHistory[i], msgs[i])
    /\ (hPc = "running" /\ hMsg > 1 /\ hPart = 0 /\ hPrompt[hMsg - 1].role = "assistant") =>
          /\ Len(hHistory) = Len(hBefore) + 1
          /\ SubSeq(hHistory, 1, Len(hBefore)) = hBefore
          /\ TurnOf(hHistory[Len(hHistory)], hPrompt[hMsg - 1])
          /\ \A k \in FunctionCalls(hHistory, Len(hHistory)) :
                hHistory[Len(hHistory)].response[k].result = Undefined

\* A conversation of a user message with a non-text part, an assistant message
\* with reasoning, text and a tool call, and a tool message has been translated.
C29_Witness ==
    /\ hPc = "done"
    /\ Len(hPrompt) = 3
    /\ hPrompt[1].role = "user" /\ Len(hPrompt[1].content) = 3
    /\ hPrompt[2].role = "assistant" /\ Len(hPrompt[2].content) = 3
    /\ hPrompt[3].role = "tool"
    /\ Len(hHistory) = 2
    /\ hHistory[1].text = "ab"
    /\ Len(hHistory[2].response) = 3

\* 244: const history = []
FreshHistory_Kept(previous) == previous
FreshHistory(previous) == <<>>

\* The conversations given to the translator, one call after another.
TranslatorInputs ==
    Prompts \cup
    { <<AssistantMsg(<<ToolCallPart("X", "p1")>>),
        ToolMsg(<<ToolResultPart("X", JsonOutput("0"))>>)>> }

\* 243-244: convertToLlamaChatHistory is called.
ConvertStart(prompt) ==
    /\ hPc \in {"idle", "done"}
    /\ Len(hOutputs) < MaxTranslations
    /\ hPrompt' = prompt
    /\ hMsg' = 1
    /\ hPart' = 0
    /\ hHistory' = FreshHistory(hHistory)
    /\ hPc' = "running"
    /\ hBefore' = <<>>
    /\ hLastPart' = NoPart
    /\ hWarned' = <<>>
    /\ UNCHANGED hOutputs

TranslationsInit ==
    /\ Constructor([session |-> TRUE, llamaModel |-> FALSE, llamaContext |-> FALSE])
    /\ StreamIdle
    /\ NoEarlierRequest
    /\ GenIdle
    /\ HistIdle
    /\ OaIdle

TranslationsNext ==
    \/ \E p \in TranslatorInputs : ConvertStart(p) /\ UNCHANGED notHist
    \/ TranslateMessage /\ UNCHANGED notHist
    \/ TranslateToolPart /\ UNCHANGED notHist
    \/ TranslateReturn /\ UNCHANGED notHist

SpecTranslations == TranslationsInit /\ [][TranslationsNext]_vars

C31_GenerateSwallowsCancellation ==
    (gPc = "done" /\ gThrown = "tool-call-detected") =>
        /\ gOutcome = "fulfilled"
        /\ gResult.finishReason = "tool-calls"
        /\ [i \in 1..Len(gResult.content) |->
               [name |-> gResult.content[i].toolName,
                params |-> gResult.content[i].args]] = gFired

\* C32: a doStream event sequence holds at most one finish event and the
\* finish event is its last event, whatever callbacks the runtime still
\* delivers between the firing of a tool and the end of the generation call.
C32_FinishOnceAndLast ==
    /\ Count("finish") <= 1
    /\ \A i \in Idx("finish") : i = Len(events)

\* C33: while the generation call runs the stream is open, and once the call
\* has returned or thrown the stream is in one terminal state, closed or
\* errored: errored exactly when the call threw and the catch block did not
\* take the throw for a tool-call cancellation.
C33_OneTerminalState ==
    /\ streamPc # "done" => streamState = "open"
    /\ streamPc = "done" =>
          /\ streamState \in {"closed", "errored"}
          /\ rtOutcome \in {"returned", "threw"}
          /\ rtOutcome = "returned" => streamState = "closed"
          /\ (streamState = "errored") = (rtOutcome = "threw" /\ ~toolCallAborted)

\* The generation call threw after a tool had fired and text had been
\* streamed, and the stream was closed.
C33_Witness ==
    /\ streamPc = "done"
    /\ rtOutcome = "threw"
    /\ Len(Fired) = 1
    /\ textStartSent
    /\ streamState = "closed"

\* ================================================================
\* Cancellation of a request
\* ================================================================

\* C35: the abort signal of a request is raised exactly when a wrapped tool
\* handler was invoked during the request: neither the completion of the
\* generation call, nor its failure, nor the abort signal the caller supplied
\* raises it.
C35_AbortedIffToolFired ==
    /\ aborted = (Len(Fired) > 0)
    /\ gAborted = (Len(gFired) > 0)

\* The caller aborted its signal during a generation that delivered text and
\* then returned; no tool fired and the request's own signal was never raised.
C35_Witness ==
    /\ callerSignal
    /\ streamPc = "done"
    /\ rtOutcome = "returned"
    /\ Fired = <<>>
    /\ ~aborted
    /\ Count("text-delta") > 0
    /\ events[Len(events)] = Finish("stop")

\* ================================================================
\* The server handles requests only with a model loaded
\* ================================================================

\* C36: the server listens only once the model is initialized, and a failed
\* initialization leaves no server: whenever a request is handled the session
\* is set, so GET /health reports model_loaded true and POST
\* /v1/chat/completions never responds 503.
C36_ListeningImpliesSession ==
    /\ srvPc = "listening" => srvSession
    /\ \A h \in healthSent : h.model_loaded
    /\ healthSent # {} => srvPc = "listening"
    /\ (oaPc # "idle" /\ ViaRoute) =>
          /\ srvPc = "listening"
          /\ srvSession
          /\ resStatus # 503

\* GET /health was answered and a chat completion was served with status 200.
C36_Witness ==
    /\ healthSent = {[status |-> "ok", model_loaded |-> TRUE]}
    /\ ViaRoute
    /\ oaPc = "done"
    /\ resStatus = 200

\* ================================================================
\* Specification of concurrent requests: several callers call doStream or
\* doGenerate on one provider that was given its session. A call first awaits
\* getSession() (398, 514); what follows runs in one turn of the event loop up
\* to the call of promptWithMeta, which then runs until it settles.
\* ================================================================
Methods == {"doStream", "doGenerate"}

\* the requests whose generation call is in flight
InFlight == {c \in Callers : rPc[c] = "generating"}

\* 395-398, 511-514: the method is called and awaits getSession().
RequestCalled(c, method, prompt) ==
    /\ rPc[c] = "idle"
    /\ session # Null
    /\ rPc' = [rPc EXCEPT ![c] = "awaiting"]
    /\ rReq' = [rReq EXCEPT ![c] = [kind |-> method, prompt |-> prompt]]
    /\ UNCHANGED <<chatHistory, historySet, rOverlap>>

\* 526-530: the history the session holds when promptWithMeta is called;
\* doGenerate (404-458) calls no setChatHistory.
InstalledHistory_Never(method, prompt, before) == before
InstalledHistory(method, prompt, before) ==
    IF method = "doStream" /\ IsContinuation(prompt)
      THEN ConvertToLlamaChatHistory(prompt)
      ELSE before

\* 399-469, 515-560: getSession() has resolved; the method runs up to the call
\* of promptWithMeta, whatever other generation calls are in flight.
RequestGenerates(c) ==
    /\ rPc[c] = "awaiting"
    /\ rPc' = [rPc EXCEPT ![c] = "generating"]
    /\ chatHistory' = InstalledHistory(rReq[c].kind, rReq[c].prompt, chatHistory)
    /\ historySet' = (historySet \/ (rReq[c].kind = "doStream"
                                      /\ IsContinuation(rReq[c].prompt)))
    /\ rOverlap' = [d \in Callers |->
                      IF d = c THEN InFlight # {} ELSE rOverlap[d] \/ d \in InFlight]
    /\ UNCHANGED rReq

\* 461-508, 647-685: promptWithMeta settles and the request is over.
RequestSettles(c) ==
    /\ rPc[c] = "generating"
    /\ rPc' = [rPc EXCEPT ![c] = "done"]
    /\ UNCHANGED <<rReq, rOverlap, chatHistory, historySet>>

\* what the concurrent requests leave alone
notConc == <<provVars, req, streamPc, events, streamState, textStartSent, textEndSent,
             toolCallAborted, aborted, textId, reasoningId, promptText, rtSegOpen,
             rtLog, rtOutcome, thrown, nextId, functions, handlerLog, genVars,
             histVars, oaVars, healthVars, callerSignal>>

ConcurrentInit ==
    /\ Constructor([session |-> TRUE, llamaModel |-> FALSE, llamaContext |-> FALSE])
    /\ StreamIdle
    /\ NoEarlierRequest
    /\ GenIdle
    /\ HistIdle
    /\ OaIdle

ConcurrentNext ==
    \/ \E c \in Callers, m \in Methods, p \in Prompts :
          RequestCalled(c, m, p) /\ UNCHANGED notConc
    \/ \E c \in Callers : RequestGenerates(c) /\ UNCHANGED notConc
    \/ \E c \in Callers : RequestSettles(c) /\ UNCHANGED notConc

SpecConcurrent == ConcurrentInit /\ [][ConcurrentNext]_vars

\* ---------------------------------------------------------------- claims
\* the session holds the history the request of c installed, if it installed one
OwnHistory(c) ==
    (rReq[c].kind = "doStream"
       /\ (Len(rReq[c].prompt) > 1 \/ HasToolResults(rReq[c].prompt))) =>
        chatHistory = ConvertToLlamaChatHistory(rReq[c].prompt)

\* C34 as stated: for concurrent requests to one provider at most one
\* generation call is in flight at any time, and while a generation call is in
\* flight the session holds the history its own request installed.
C34_OneGenerationOwnHistory ==
    /\ Cardinality(InFlight) <= 1
    /\ \A c \in InFlight : OwnHistory(c)

\* C34, amended: the provider does not serialize requests. A generation call
\* that overlaps with no other one (callers issue their requests one after the
\* other) is the only one in flight and runs against the history its own
\* request installed.
C34_SerializedOwnHistory ==
    \A c \in InFlight :
        ~rOverlap[c] => (InFlight = {c} /\ OwnHistory(c))

\* A doStream continuation generates on its own, after another doStream
\* continuation with a different conversation has installed its history and
\* finished.
C34_Witness ==
    \E c, d \in Callers :
        /\ rPc[d] = "done"
        /\ rPc[c] = "generating"
        /\ ~rOverlap[c]
        /\ rReq[c].kind = "doStream"
        /\ rReq[d].kind = "doStream"
        /\ Len(rReq[c].prompt) > 1
        /\ Len(rReq[d].prompt) > 1
        /\ ConvertToLlamaChatHistory(rReq[c].prompt)
              # ConvertToLlamaChatHistory(rReq[d].prompt)

====
